---------------------------- MODULE Spec2Model ----------------------------
(***************************************************************************)
(* A model of pydap's constraint-expression engine                          *)
(* (src/src/pydap/handlers/lib.py): the row-stream view IterData, the       *)
(* predicate token ConstraintExpression, build_filter, wrap_arrayterator,   *)
(* apply_selection, apply_projection and BaseHandler.parse.                 *)
(*                                                                          *)
(* Python strings are sequences of one-character strings, so that the       *)
(* formatting of a clause ('%s>%s'), its splitting (str.split, re.split)    *)
(* and the reading of its literal (ast.literal_eval) are computed, not      *)
(* assumed.  None is the integer -1 (slice bounds are never negative:       *)
(* itertools.islice refuses a negative bound).                              *)
(***************************************************************************)
EXTENDS Integers, Sequences, FiniteSets, TLC

VARIABLES
    stream,     \* IterData.stream: the rows of the source, shared by every view
    views,      \* the IterData objects alive, by object number
    lists,      \* the Python list objects that hold the views' selections
    hist,       \* ghost: for each view, the __getitem__ call that made it
    ret,        \* the value returned (or the error raised) by the latest call
    heap,       \* the nodes of the type trees alive, by object number
    tokens,     \* the ConstraintExpression tokens alive
    call        \* the arguments of the latest call on the handler

vars == <<stream, views, lists, hist, ret, heap, tokens, call>>

None == -1

\* ------------------------------------------------------------------ bounds
MaxViews == 3
MaxPaths == 2

\* ----------------------------------------------------------------- strings
Str(s) == <<s>>
Dot == "."
Amp == "&"

RECURSIVE str_split(_, _)
\* s.split(sep) for a one-character separator: never an empty list
str_split(s, sep) ==
    IF \A i \in 1..Len(s) : s[i] # sep THEN <<s>>
    ELSE LET i == CHOOSE k \in 1..Len(s) :
                      s[k] = sep /\ \A j \in 1..(k-1) : s[j] # sep
         IN  <<SubSeq(s, 1, i-1)>> \o str_split(SubSeq(s, i+1, Len(s)), sep)

Last(q) == q[Len(q)]

Digits == <<"0", "1", "2", "3", "4", "5", "6", "7", "8", "9">>

DigitVal(c) == (CHOOSE k \in 1..10 : Digits[k] = c) - 1

IsDigit(c) == \E k \in 1..10 : Digits[k] = c

RECURSIVE encode(_)
\* pydap.lib.encode of a non-negative int: its decimal digits
encode(n) ==
    IF n < 10 THEN <<Digits[n + 1]>>
    ELSE encode(n \div 10) \o <<Digits[(n % 10) + 1]>>

RECURSIVE DecVal(_)
DecVal(s) ==
    IF Len(s) = 1 THEN DigitVal(s[1])
    ELSE 10 * DecVal(SubSeq(s, 1, Len(s) - 1)) + DigitVal(s[Len(s)])

\* ast.literal_eval on the literals of this model: a run of digits is an
\* int, anything else is refused
literal_ok(s) == Len(s) > 0 /\ \A i \in 1..Len(s) : IsDigit(s[i])

literal_eval(s) == DecVal(s)

\* ---------------------------------------------------------------- re.split
\* The alternation (<=|>=|!=|=~|>|<|=) in the order the pattern lists it.
OpAlternatives == << <<"<", "=">>, <<">", "=">>, <<"!", "=">>, <<"=", "~">>,
                     <<">">>, <<"<">>, <<"=">> >>

MatchesAt(s, i, op) ==
    /\ i + Len(op) - 1 <= Len(s)
    /\ \A k \in 1..Len(op) : s[i + k - 1] = op[k]

OpAt(s, i) ==
    LET k == CHOOSE a \in 1..Len(OpAlternatives) :
                 /\ MatchesAt(s, i, OpAlternatives[a])
                 /\ \A b \in 1..(a-1) : ~MatchesAt(s, i, OpAlternatives[b])
    IN  OpAlternatives[k]

\* re.split('(<=|>=|!=|=~|>|<|=)', expression, 1): the leftmost match, and at
\* that place the first alternative that matches
re_split(expression) ==
    LET Parts(i, op) ==
            [id1 |-> SubSeq(expression, 1, i - 1),
             op  |-> op,
             id2 |-> SubSeq(expression, i + Len(op), Len(expression))]
        SplitAt(i) == Parts(i, OpAt(expression, i))
    IN  SplitAt(CHOOSE k \in 1..Len(expression) :
                    /\ \E a \in 1..Len(OpAlternatives) :
                           MatchesAt(expression, k, OpAlternatives[a])
                    /\ \A j \in 1..(k-1) : \A a \in 1..Len(OpAlternatives) :
                           ~MatchesAt(expression, j, OpAlternatives[a]))


\* ------------------------------------------------------------ build_filter
OpLt == <<"<">>
OpGt == <<">">>
OpNe == <<"!", "=">>
OpEq == <<"=">>
OpGe == <<">", "=">>
OpLe == <<"<", "=">>

\* the operator table of build_filter, on ints
ApplyOp(op, x, y) ==
    CASE op = OpLt -> x < y
      [] op = OpGt -> x > y
      [] op = OpNe -> x # y
      [] op = OpEq -> x = y
      [] op = OpGe -> x >= y
      [] op = OpLe -> x <= y

InTuple(name, cols) == \E i \in 1..Len(cols) : cols[i] = name

\* cols.index(name): the first place
IndexOf(name, cols) ==
    CHOOSE i \in 1..Len(cols) : cols[i] = name /\ \A j \in 1..(i-1) : cols[j] # name

\* One pass of the loop of build_filter: the compiled filter_ of a clause, or
\* the ConstraintExpressionError of a left operand that is no column.
compile_clause(expression, cols) ==
    LET Compiled(t, name1, name2) ==
            IF ~InTuple(name1, cols)
            THEN [err |-> "ConstraintExpressionError", a |-> 0, bcol |-> FALSE,
                  b |-> 0, op |-> t.op]
            ELSE [err  |-> "none",
                  a    |-> IndexOf(name1, cols),
                  bcol |-> InTuple(name2, cols),
                  b    |-> IF InTuple(name2, cols) THEN IndexOf(name2, cols)
                           ELSE literal_eval(t.id2),
                  op   |-> t.op]
        Split(t) == Compiled(t, Last(str_split(t.id1, Dot)),
                             Last(str_split(t.id2, Dot)))
    IN  Split(re_split(expression))

\* filter_ = lambda line: op(a(line), b(line))
filter_call(f, line) ==
    ApplyOp(f.op, line[f.a], IF f.bcol THEN line[f.b] ELSE f.b)

\* A bug the returned lambda could have: only the last filter is asked.
build_filter_last(filters, line) ==
    Len(line) > 0 /\ (filters = <<>> \/ filter_call(filters[Len(filters)], line))

\* lambda line: reduce(lambda x, y: x and y, [f(line) for f in filters])
build_filter_and(filters, line) ==
    Len(line) > 0 /\ \A k \in 1..Len(filters) : filter_call(filters[k], line)

\* build_filter(selection, cols): filters = [bool] plus one filter_ per
\* expression; the returned lambda is the conjunction of them all.
build_filter(selection, cols) ==
    LET Built(compiled) ==
            IF \E k \in 1..Len(selection) : compiled[k].err # "none"
            THEN [err |-> "ConstraintExpressionError", filters |-> <<>>]
            ELSE [err |-> "none", filters |-> compiled]
    IN  Built([k \in 1..Len(selection) |-> compile_clause(selection[k], cols)])

\* ------------------------------------------------------------------ slices
Slice(start, stop, step) == [start |-> start, stop |-> stop, step |-> step]

SliceNone == Slice(None, None, None)

Min(x, y) == IF x <= y THEN x ELSE y

\* itertools.islice(data, start, stop, step)
islice(data, start, stop, step) ==
    LET s  == IF start = None THEN 0 ELSE start
        e  == IF stop = None THEN Len(data) ELSE Min(stop, Len(data))
        st == IF step = None THEN 1 ELSE step
        n  == IF e <= s THEN 0 ELSE (e - s + st - 1) \div st
    IN  [k \in 1..n |-> data[s + (k - 1) * st + 1]]

\* pydap.lib.combine_slices on one-element tuples: the slice that takes
\* slice2 inside the positions selected by slice1
combine_slices(slice1, slice2) ==
    LET e1 == slice1[1]
        e2 == slice2[1]
        start1 == IF e1.start = None THEN 0 ELSE e1.start
        step1  == IF e1.step = None THEN 1 ELSE e1.step
        start2 == IF e2.start = None THEN 0 ELSE e2.start
        step2  == IF e2.step = None THEN 1 ELSE e2.step
        stop   == IF e1.stop = None /\ e2.stop = None THEN None
                  ELSE IF e1.stop = None THEN start1 + e2.stop * step1
                  ELSE IF e2.stop = None THEN e1.stop
                  ELSE Min(e1.stop, start1 + e2.stop * step1)
    IN  << Slice(start1 + start2 * step1, stop, step1 * step2) >>

\* ---------------------------------------------------------------- IterData
\* cols is a single name (a str) or a tuple of names: isinstance(cols, tuple)
\* is the field tuple.
ColsTuple(names) == [tuple |-> TRUE, names |-> names]
ColsName(name) == [tuple |-> FALSE, names |-> <<name>>]

\* IterData.__init__(names, stream, selection, slice_), the lists heap given:
\* the selection list object is kept as it is handed in
IterData_init(id, vs, selection, slice_) ==
    [id |-> id, vars |-> vs, cols |-> ColsTuple(vs),
     selection |-> selection, slice |-> slice_]

Result(err, scalar, rows, dtype) ==
    [err |-> err, scalar |-> scalar, rows |-> rows, dtype |-> dtype]

RECURSIVE Indexes(_, _)
\* the loop over cols at the head of __iter__: a name that is no var adds
\* no index
Indexes(cols, vs) ==
    IF cols = <<>> THEN <<>>
    ELSE (IF InTuple(cols[1], vs) THEN <<IndexOf(cols[1], vs)>> ELSE <<>>)
         \o Indexes(Tail(cols), vs)

\* A bug IterData.__iter__ could have: the slice window taken over the source
\* rows, before the filter.
IterData_iter_window_first(self, ls, strm) ==
    LET NonEmpty(line) == Len(line) > 0
        Columns(data, indexes) ==
            [k \in 1..Len(data) |->
                [j \in 1..Len(indexes) |-> data[k][indexes[j]]]]
        Items(data) ==
            IF self.cols.tuple THEN Result("none", FALSE, data, <<>>)
            ELSE Result("none", TRUE, [k \in 1..Len(data) |-> data[k][1]], <<>>)
        Filtered(f) ==
            LET Keep(line) == build_filter_and(f.filters, line)
            IN  IF f.err # "none" THEN Result(f.err, FALSE, <<>>, <<>>)
                ELSE Items(Columns(
                         SelectSeq(islice(SelectSeq(strm, NonEmpty),
                                          self.slice[1].start,
                                          self.slice[1].stop,
                                          self.slice[1].step),
                                   Keep),
                         Indexes(self.cols.names, self.vars)))
    IN  Filtered(build_filter(ls[self.selection], self.vars))

\* IterData.__iter__, run to its end over the rows of strm
IterData_iter(self, ls, strm) ==
    LET \* data = itertools.ifilter(len, iter(self.stream))
        NonEmpty(line) == Len(line) > 0
        \* data = itertools.imap(lambda line: [line[i] for i in indexes], data)
        Columns(data, indexes) ==
            [k \in 1..Len(data) |->
                [j \in 1..Len(indexes) |-> data[k][indexes[j]]]]
        \* operator.itemgetter(0) of every item when cols is a single name
        Items(data) ==
            IF self.cols.tuple THEN Result("none", FALSE, data, <<>>)
            ELSE IF \E k \in 1..Len(data) : Len(data[k]) = 0
                 THEN Result("IndexError", TRUE, <<>>, <<>>)
            ELSE Result("none", TRUE, [k \in 1..Len(data) |-> data[k][1]], <<>>)
        \* the rows filtered by f, mapped to the columns, then cut by islice
        Filtered(f) ==
            LET Keep(line) == build_filter_and(f.filters, line)
            IN  IF f.err # "none" THEN Result(f.err, FALSE, <<>>, <<>>)
                ELSE Items(islice(
                         Columns(SelectSeq(SelectSeq(strm, NonEmpty), Keep),
                                 Indexes(self.cols.names, self.vars)),
                         self.slice[1].start, self.slice[1].stop,
                         self.slice[1].step))
    IN  Filtered(build_filter(ls[self.selection], self.vars))

\* A bug IterData.dtype could have: a default answer for a stream with no row.
IterData_dtype_default(self, ls, strm) ==
    LET Peek(it) ==
            IF it.err # "none" THEN it
            ELSE Result("none", it.scalar, <<>>, <<>>)
    IN  Peek(IterData_iter(self, ls, strm))

\* IterData.dtype: peek = iter(self).next(); nothing of self is assigned
IterData_dtype(self, ls, strm) ==
    LET Peek(it) ==
            IF it.err # "none" THEN it
            ELSE IF it.rows = <<>>
                 THEN Result("StopIteration", it.scalar, <<>>, <<>>)
            ELSE IF self.cols.tuple
                 THEN Result("none", FALSE, <<it.rows[1]>>,
                             SubSeq(self.cols.names, 1,
                                    Min(Len(self.cols.names), Len(it.rows[1]))))
            ELSE Result("none", TRUE, <<it.rows[1]>>, <<>>)
    IN  Peek(IterData_iter(self, ls, strm))

\* A bug IterData.clone could have: self.selection handed on, not copied.
IterData_clone_shared(self, ls) ==
    [view  |-> IterData_init(self.id, self.vars, self.selection, self.slice),
     lists |-> Append(ls, ls[self.selection])]

\* IterData.clone: a new object, with copies of vars, selection and slice.
\* The new selection list is a new list object, the last of the heap.
IterData_clone(self, ls) ==
    [view  |-> IterData_init(self.id, self.vars, Len(ls) + 1, self.slice),
     lists |-> Append(ls, ls[self.selection])]

\* A bug __and__ could have: the operands joined the other way round.
ConstraintExpression_and_swapped(self, other) == other \o <<Amp>> \o self

\* ConstraintExpression.__and__: self.value + '&' + str(other)
ConstraintExpression_and(self, other) == self \o <<Amp>> \o other

\* ConstraintExpression.__or__: raises, whatever the operands
ConstraintExpression_or(self, other) == "ConstraintExpressionError"

\* IterData.__gt__ and the five others: '%s>%s' % (self.id, encode(other))
IterData_cmp(self, op, other) == self.id \o op \o encode(other)

\* The key of a __getitem__ call.  cmps is a ghost: the comparisons the
\* token was built from, which the call itself never reads.
Key(kind, name, names, tok, i, sl, cmps) ==
    [kind |-> kind, name |-> name, names |-> names, tok |-> tok, i |-> i,
     sl |-> sl, cmps |-> cmps]
KeyStr(name) == Key("str", name, <<>>, <<>>, 0, SliceNone, <<>>)
KeyList(names) == Key("list", <<>>, names, <<>>, 0, SliceNone, <<>>)
KeyCE(tok, cmps) == Key("ce", <<>>, <<>>, tok, 0, SliceNone, cmps)
KeyInt(i) == Key("int", <<>>, <<>>, <<>>, i, SliceNone, <<>>)
KeySlice(sl) == Key("slice", <<>>, <<>>, <<>>, 0, sl, <<>>)

\* A bug the int branch could have: slice(key, key), an empty range.
int_to_slice_empty(key) == Slice(key, key, None)

\* key = slice(key, key+1)
int_to_slice(key) == Slice(key, key + 1, None)

\* IterData.__getitem__: the new view and the heap of lists after the call
IterData_getitem(self, ls, key) ==
    LET Keyed(out, ls1) ==
            CASE key.kind = "str" ->
                   [view  |-> [out EXCEPT !.id = self.id \o <<Dot>> \o key.name,
                                          !.cols = ColsName(key.name)],
                    lists |-> ls1]
              [] key.kind = "list" ->
                   [view  |-> [out EXCEPT !.cols = ColsTuple(key.names)],
                    lists |-> ls1]
              [] key.kind = "ce" ->
                   [view  |-> [out EXCEPT !.cols = self.cols],
                    lists |-> [ls1 EXCEPT ![out.selection] =
                                   @ \o str_split(key.tok, Amp)]]
              [] key.kind = "int" ->
                   [view  |-> [out EXCEPT
                                 !.slice = combine_slices(self.slice,
                                                          <<int_to_slice(key.i)>>),
                                 !.cols = self.cols],
                    lists |-> ls1]
              [] key.kind = "slice" ->
                   [view  |-> [out EXCEPT
                                 !.slice = combine_slices(self.slice, <<key.sl>>),
                                 !.cols = self.cols],
                    lists |-> ls1]
        Cloned(c) == Keyed(c.view, c.lists)
    IN  Cloned(IterData_clone(self, ls))


\* ------------------------------------------------ the row-stream view alone
\* Inputs of the view specification.
VarA == Str("a")
VarB == Str("b")
VarC == Str("c")
SeqId == Str("s")
SeqVars == <<VarA, VarB, VarC>>

Streams ==
    { << <<0, 5, 1>>, <<1, 15, 0>>, <<>>, <<2, 8, 1>>, <<3, 20, 0>>, <<4, 3, 1>> >>,
      << <<>> >>,
      << <<2, 10, 2>>, <<1, 1, 0>>, <<2, 2, 2>>, <<0, 10, 1>> >> }

NameKeys == {VarB}
ListKeys == {<<VarB, VarA>>, <<VarC>>}
\* The tokens handed to v[...], as expressions over the view v: a comparison
\* of a child view v[name], or of v itself (name = <<>>), with an int, and
\* the conjunction of two of them.
Cmp(name, op, n) == [name |-> name, op |-> op, n |-> n]
TokenInputs == { <<Cmp(VarB, OpGt, 10)>>,
                 <<Cmp(VarA, OpLe, 1)>>,
                 <<Cmp(VarA, OpGe, 1), Cmp(VarC, OpNe, 1)>>,
                 <<Cmp(<<>>, OpEq, 10)>> }
IntKeys == {1}
SliceKeys == {Slice(None, None, 2), Slice(2, 10, None), Slice(1, 3, None)}

NoResult == Result("none", FALSE, <<>>, <<>>)

Ret(op, v, res) == [op |-> op, v |-> v, res |-> res]

NoKey == Key("none", <<>>, <<>>, <<>>, 0, SliceNone, <<>>)

InitView ==
    /\ stream \in Streams
    /\ lists = << <<>> >>
    /\ views = << IterData_init(SeqId, SeqVars, 1, <<SliceNone>>) >>
    /\ hist = << [parent |-> 0, key |-> NoKey] >>
    /\ ret = Ret("init", 1, NoResult)
    /\ heap = <<>>
    /\ tokens = {}
    /\ call = <<>>

\* out = v[key], kept as a new object
GetItem(v, key) ==
    LET Made(r) == /\ views' = Append(views, r.view)
                   /\ lists' = r.lists
    IN  /\ Len(views) < MaxViews
        /\ Made(IterData_getitem(views[v], lists, key))
        /\ hist' = Append(hist, [parent |-> v, key |-> key])
        /\ ret' = Ret("getitem", Len(views) + 1, NoResult)
        /\ UNCHANGED <<stream, heap, tokens, call>>

\* the calls are made on the first view or on the view made last
Callees == {1, Len(views)}

GetItemStr == \E v \in Callees : \E k \in NameKeys : GetItem(v, KeyStr(k))

GetItemList == \E v \in Callees : \E k \in ListKeys : GetItem(v, KeyList(k))

\* the token of one comparison on v: v[name] > n, or v > n
CmpToken(v, c) ==
    IF c.name = <<>> THEN IterData_cmp(views[v], c.op, c.n)
    ELSE IterData_cmp(IterData_getitem(views[v], lists, KeyStr(c.name)).view,
                      c.op, c.n)

MakeToken(v, t) ==
    IF Len(t) = 1 THEN CmpToken(v, t[1])
    ELSE ConstraintExpression_and(CmpToken(v, t[1]), CmpToken(v, t[2]))

\* ghost: the column each comparison of the token is about (the child's name,
\* or the last name of v's own id)
GhostCmps(v, t) ==
    [k \in 1..Len(t) |->
        Cmp(IF t[k].name = <<>> THEN Last(str_split(views[v].id, Dot))
            ELSE t[k].name, t[k].op, t[k].n)]

\* v[v['b'] > 10], v[(v['a'] >= 1) & (v['c'] != 1)], ...
GetItemCE ==
    \E v \in Callees : \E t \in TokenInputs :
        GetItem(v, KeyCE(MakeToken(v, t), GhostCmps(v, t)))

GetItemInt == \E v \in Callees : \E i \in IntKeys : GetItem(v, KeyInt(i))

GetItemSlice == \E v \in Callees : \E sl \in SliceKeys : GetItem(v, KeySlice(sl))

\* list(v), of the view made last
Iter ==
    \E v \in {Len(views)} :
        /\ ret' = Ret("iter", v, IterData_iter(views[v], lists, stream))
        /\ UNCHANGED <<stream, views, lists, hist, heap, tokens, call>>

\* v.dtype, of the view made last
Dtype ==
    \E v \in {Len(views)} :
        /\ ret' = Ret("dtype", v, IterData_dtype(views[v], lists, stream))
        /\ UNCHANGED <<stream, views, lists, hist, heap, tokens, call>>

NextView ==
    \/ GetItemStr
    \/ GetItemList
    \/ GetItemCE
    \/ GetItemInt
    \/ GetItemSlice
    \/ Iter
    \/ Dtype

SpecView == InitView /\ [][NextView]_vars


\* ------------------------------------------------- claims on the view alone
RECURSIVE CmpsOf(_)
\* ghost: the comparisons a view has been filtered by, oldest first
CmpsOf(v) ==
    IF hist[v].parent = 0 THEN <<>>
    ELSE CmpsOf(hist[v].parent) \o hist[v].key.cmps

CmpHolds(c, row, vs) ==
    LET x == row[IndexOf(c.name, vs)]
    IN  \/ c.op = <<"<">> /\ x < c.n
        \/ c.op = <<">">> /\ x > c.n
        \/ c.op = <<"=">> /\ x = c.n
        \/ c.op = <<"!", "=">> /\ x # c.n
        \/ c.op = <<"<", "=">> /\ x <= c.n
        \/ c.op = <<">", "=">> /\ x >= c.n

\* position i (from 0) is inside the window of sl
InWindow(i, sl) ==
    LET s  == IF sl.start = None THEN 0 ELSE sl.start
        st == IF sl.step = None THEN 1 ELSE sl.step
    IN  /\ i >= s
        /\ sl.stop = None \/ i < sl.stop
        /\ (i - s) % st = 0

RECURSIVE WindowFrom(_, _, _)
WindowFrom(q, i, sl) ==
    IF q = <<>> THEN <<>>
    ELSE (IF InWindow(i, sl) THEN <<Head(q)>> ELSE <<>>)
         \o WindowFrom(Tail(q), i + 1, sl)

WindowOf(q, sl) == WindowFrom(q, 0, sl)

\* the source rows that are not empty and pass every comparison of v
KeptRows(v) ==
    LET cs == CmpsOf(v)
        Passes(row) ==
            /\ Len(row) > 0
            /\ \A k \in 1..Len(cs) : CmpHolds(cs[k], row, views[v].vars)
    IN  SelectSeq(stream, Passes)

\* a kept row, as the columns of cols in cols order
Projected(row, v) ==
    [j \in 1..Len(views[v].cols.names) |->
        row[IndexOf(views[v].cols.names[j], views[v].vars)]]

ExpectedRows(v) ==
    LET kept == KeptRows(v)
    IN  WindowOf([k \in 1..Len(kept) |-> Projected(kept[k], v)],
                 views[v].slice[1])

BadCmp(v) ==
    \E k \in 1..Len(CmpsOf(v)) : ~InTuple(CmpsOf(v)[k].name, views[v].vars)

\* C3: iterating a view yields the source rows, in source order, that are not
\* empty and pass every clause of its selection, each as the columns of cols
\* in cols order, cut to the start/stop/step window of its slice counted over
\* the filtered rows; a view of a single column name yields bare values.  (A
\* clause whose left operand is no column makes the iteration raise
\* ConstraintExpressionError instead.)
C3_IterYieldsFilteredProjectedWindow ==
    ret.op = "iter" =>
        IF BadCmp(ret.v)
        THEN ret.res.err = "ConstraintExpressionError"
        ELSE /\ ret.res.err = "none"
             /\ ret.res.scalar = ~views[ret.v].cols.tuple
             /\ LET e == ExpectedRows(ret.v)
                IN  IF views[ret.v].cols.tuple THEN ret.res.rows = e
                    ELSE ret.res.rows = [k \in 1..Len(e) |-> e[k][1]]

\* a view filtered after it was sliced, where both the filter and the window
\* drop rows
C3_Witness ==
    /\ ret.op = "iter"
    /\ ret.res.err = "none"
    /\ ret.res.rows # <<>>
    /\ hist[ret.v].key.kind = "ce"
    /\ views[ret.v].slice[1] # SliceNone
    /\ Len(KeptRows(ret.v)) < Len(stream) - 1
    /\ Len(ret.res.rows) < Len(KeptRows(ret.v))

RangeOfKey(key) ==
    IF key.kind = "int" THEN Slice(key.i, key.i + 1, None) ELSE key.sl

\* C4: a view made by indexing a view p with a range (or with an integer i,
\* read as the range [i, i+1)) yields the rows of that range taken inside the
\* rows p yields.
C4_SliceOfSliceComposes ==
    (ret.op = "iter" /\ hist[ret.v].key.kind \in {"int", "slice"}) =>
        LET p  == hist[ret.v].parent
            pr == IterData_iter(views[p], lists, stream)
        IN  /\ ret.res.err = pr.err
            /\ ret.res.scalar = pr.scalar
            /\ ret.res.rows = WindowOf(pr.rows, RangeOfKey(hist[ret.v].key))

\* [2:10] then [1:3] on the five-row stream: the rows at 3 and 4
C4_Witness ==
    /\ ret.op = "iter"
    /\ ret.v = 3
    /\ hist[2] = [parent |-> 1, key |-> KeySlice(Slice(2, 10, None))]
    /\ hist[3] = [parent |-> 2, key |-> KeySlice(Slice(1, 3, None))]
    /\ views[3].slice = <<Slice(3, 5, 1)>>
    /\ ret.res.rows = << <<3, 20, 0>>, <<4, 3, 1>> >>

\* C5: no step changes a view that exists: its id, vars, cols, slice, the
\* list object it holds as selection and the contents of that list stay as
\* they are, whatever is called on it or on the views made from it.
C5_GetItemLeavesViewUnchanged ==
    [][\A v \in DOMAIN views :
          /\ v \in DOMAIN views'
          /\ views'[v] = views[v]
          /\ lists'[views[v].selection] = lists[views[v].selection]]_vars

\* a view filtered from a view that was itself filtered from the first one
C5_Witness ==
    /\ Len(views) = 3
    /\ hist[2].parent = 1 /\ hist[2].key.kind = "ce"
    /\ hist[3].parent = 2 /\ hist[3].key.kind = "ce"
    /\ lists[views[1].selection] = <<>>
    /\ Len(lists[views[3].selection]) > Len(lists[views[2].selection])

\* the iteration of the view ends without an error and without a row
YieldsNoRow(v) ==
    LET it == IterData_iter(views[v], lists, stream)
    IN  it.err = "none" /\ it.rows = <<>>

ArrNone == [src |-> 0, shape |-> <<>>, itemsize |-> 0, wrapped |-> FALSE,
            buf |-> 0, win |-> <<>>]

\* a dense array: its source, shape and item size in bytes; wrapped and buf
\* are the Arrayterator around it, win the slices taken of it
Array(src, shape, itemsize) ==
    [src |-> src, shape |-> shape, itemsize |-> itemsize, wrapped |-> FALSE,
     buf |-> 0, win |-> <<>>]

Node(kind, name, id, keys, dict, arr, view, attrs) ==
    [kind |-> kind, name |-> name, id |-> id, keys |-> keys, dict |-> dict,
     arr |-> arr, view |-> view, attrs |-> attrs]

Entry(name, ref) == [name |-> name, ref |-> ref]

\* isinstance(node, StructureType): the dataset, grids and sequences are
\* structures too
IsStructure(node) ==
    node.kind \in {"DatasetType", "StructureType", "GridType", "SequenceType"}

HasChild(node, name) == \E e \in 1..Len(node.dict) : node.dict[e].name = name

\* node[name], of a structure
Child(node, name) ==
    node.dict[CHOOSE e \in 1..Len(node.dict) : node.dict[e].name = name].ref

\* the sequence written out element by element, as a tuple
AsSeq(f) == f \o <<>>

RECURSIVE Concat(_)
Concat(qs) == IF qs = <<>> THEN <<>> ELSE Head(qs) \o Concat(Tail(qs))

RECURSIVE Preorder(_, _)
\* the nodes under r, r first, children in _keys order
Preorder(h, r) ==
    <<r>> \o Concat([k \in 1..Len(h[r].keys) |->
                        Preorder(h, Child(h[r], h[r].keys[k]))])

\* walk(dataset, type): the nodes of that kind, in pre-order
walk(h, r, kinds) ==
    LET OfKind(n) == h[n].kind \in kinds
    IN  SelectSeq(Preorder(h, r), OfKind)

PlaceIn(q, x) == CHOOSE i \in 1..Len(q) : q[i] = x

\* node.clone(): new nodes for the whole skeleton under r, appended to the
\* heap; arrays, views and attributes are shared
clone(h, r) ==
    LET Copies(order) ==
            [i \in 1..Len(order) |->
                [h[order[i]] EXCEPT !.dict =
                    AsSeq([k \in 1..Len(h[order[i]].keys) |->
                              Entry(h[order[i]].keys[k],
                                    Len(h) + PlaceIn(order,
                                        Child(h[order[i]],
                                              h[order[i]].keys[k])))])]]
    IN  [heap |-> h \o Copies(Preorder(h, r)), root |-> Len(h) + 1]

RECURSIVE Descend(_, _, _)
Descend(h, r, names) ==
    IF names = <<>> THEN r
    ELSE IF ~HasChild(h[r], names[1]) THEN 0
    ELSE Descend(h, Child(h[r], names[1]), Tail(names))

\* pydap.lib.get_var(dataset, id): the node at the dotted path, 0 when a name
\* of the path is no child (the code raises there)
get_var(h, r, id) == Descend(h, r, str_split(id, Dot))

\* the id a child takes in its parent
ChildId(parent, name) ==
    IF parent.kind = "DatasetType" THEN name ELSE parent.id \o <<Dot>> \o name

\* parent[name] = item: the name joins _keys when it is new, and the item
\* takes its id from the parent
setitem(h, parent, name, item) ==
    [h EXCEPT
       ![parent].keys = IF \E k \in 1..Len(@) : @[k] = name THEN @
                        ELSE Append(@, name),
       ![parent].dict = IF HasChild(h[parent], name)
                        THEN AsSeq([e \in 1..Len(@) |->
                                       IF @[e].name = name THEN Entry(name, item)
                                       ELSE @[e]])
                        ELSE Append(@, Entry(name, item)),
       ![item].id = ChildId(h[parent], name)]

\* The dataset of the handler: an array x, a structure t of an array p and a
\* scalar q, a grid g of an array r and its map m, and a sequence s of the
\* columns a, b, c over the row stream.
NameX == Str("x")
NameT == Str("t")
NameP == Str("p")
NameQ == Str("q")
NameG == Str("g")
NameR == Str("r")
NameM == Str("m")
NameD == Str("d")

Path2(a, b) == a \o <<Dot>> \o b

TemplateRoot == 1

TemplateHeap ==
    << Node("DatasetType", NameD, NameD, <<NameX, NameT, NameG, SeqId>>,
            <<Entry(NameX, 2), Entry(NameT, 3), Entry(NameG, 6), Entry(SeqId, 9)>>,
            ArrNone, 0, 1),
       Node("BaseType", NameX, NameX, <<>>, <<>>, Array(1, <<4>>, 4), 0, 2),
       Node("StructureType", NameT, NameT, <<NameP, NameQ>>,
            <<Entry(NameP, 4), Entry(NameQ, 5)>>, ArrNone, 0, 3),
       Node("BaseType", NameP, Path2(NameT, NameP), <<>>, <<>>,
            Array(2, <<2>>, 8), 0, 4),
       Node("BaseType", NameQ, Path2(NameT, NameQ), <<>>, <<>>,
            Array(3, <<>>, 8), 0, 5),
       Node("GridType", NameG, NameG, <<NameR, NameM>>,
            <<Entry(NameR, 7), Entry(NameM, 8)>>, ArrNone, 0, 6),
       Node("BaseType", NameR, Path2(NameG, NameR), <<>>, <<>>,
            Array(4, <<3>>, 2), 0, 7),
       Node("BaseType", NameM, Path2(NameG, NameM), <<>>, <<>>,
            Array(5, <<3>>, 2), 0, 8),
       Node("SequenceType", SeqId, SeqId, SeqVars,
            <<Entry(VarA, 10), Entry(VarB, 11), Entry(VarC, 12)>>, ArrNone, 1, 9),
       Node("BaseType", VarA, Path2(SeqId, VarA), <<>>, <<>>, ArrNone, 0, 10),
       Node("BaseType", VarB, Path2(SeqId, VarB), <<>>, <<>>, ArrNone, 0, 11),
       Node("BaseType", VarC, Path2(SeqId, VarC), <<>>, <<>>, ArrNone, 0, 12) >>


\* ------------------------------------------------------- the handler's steps
\* The objects a call works on: the nodes, the views and the selection lists.
Machine(h, vs, ls) == [heap |-> h, views |-> vs, lists |-> ls]

Outcome(err, m) == [err |-> err, m |-> m]

\* elements = size // var.data.dtype.itemsize
elements(size, itemsize) == size \div itemsize

\* wrap_arrayterator(dataset, size): every array leaf that is not wrapped yet,
\* has a non-zero item size and a non-empty shape gets an Arrayterator of
\* `elements` elements.  (The column leaves of a sequence have no array of
\* their own and are passed over.)
wrap_arrayterator(h, ds, size) ==
    LET leaves == walk(h, ds, {"BaseType"})
        Wraps(n) == /\ \E i \in 1..Len(leaves) : leaves[i] = n
                    /\ ~h[n].arr.wrapped
                    /\ h[n].arr.itemsize # 0
                    /\ h[n].arr.shape # <<>>
    IN  AsSeq([n \in 1..Len(h) |->
                  IF Wraps(n)
                  THEN [h[n] EXCEPT !.arr.wrapped = TRUE,
                                    !.arr.buf = elements(size, h[n].arr.itemsize)]
                  ELSE h[n]])

\* re.match('%s\.[^\.]+(<=|<|>=|>|=|!=)' % re.escape(seq.id), condition): the
\* id, a dot, one or more characters that are no dot, then an operator
SelectionOpAt(s, i) ==
    \/ i <= Len(s) /\ s[i] \in {"<", ">", "="}
    \/ i + 1 <= Len(s) /\ s[i] = "!" /\ s[i + 1] = "="

condition_matches(id, condition) ==
    LET n == Len(id)
    IN  /\ Len(condition) > n + 1
        /\ SubSeq(condition, 1, n) = id
        /\ condition[n + 1] = Dot
        /\ \E j \in (n + 2)..Len(condition) :
              /\ \A k \in (n + 2)..j : condition[k] # Dot
              /\ SelectionOpAt(condition, j + 1)

\* the operator table of parse_selection has no '=~'
SelectionOps == {OpLe, OpGe, OpNe, OpEq, OpGt, OpLt}

\* The comparison of a variable with a literal or with another variable
\* (pydap.model, modelled from spec 4.4): the token '<id><op><literal-or-id>'.
BaseType_cmp(node, op, isvar, other) ==
    node.id \o op \o (IF isvar THEN other.id ELSE encode(other))

\* parse_selection(expression, dataset), then op(id1, id2): the token, or the
\* error raised on the way
parse_selection(expression, h, ds) ==
    LET Token(t, v1, v2) ==
            IF t.op \notin SelectionOps THEN [err |-> "KeyError", token |-> <<>>]
            ELSE IF v1 = 0 THEN
                \* ast.literal_eval(id1): id1 starts with the sequence's id
                \* and a dot, which is no literal
                [err |-> "ValueError", token |-> <<>>]
            ELSE IF v2 = 0 /\ ~literal_ok(t.id2)
                 THEN [err |-> "ValueError", token |-> <<>>]
            ELSE [err |-> "none",
                  token |-> IF v2 # 0 THEN BaseType_cmp(h[v1], t.op, TRUE, h[v2])
                            ELSE BaseType_cmp(h[v1], t.op, FALSE,
                                              literal_eval(t.id2))]
        Split(t) == Token(t, get_var(h, ds, t.id1), get_var(h, ds, t.id2))
    IN  Split(re_split(expression))

RECURSIVE apply_conditions(_, _, _, _)
\* the inner loop of apply_selection: seq.data = seq[op(id1, id2)].data
apply_conditions(conditions, m, ds, seq) ==
    LET Filtered(g) ==
            apply_conditions(
                Tail(conditions),
                Machine([m.heap EXCEPT ![seq].view = Len(m.views) + 1],
                        Append(m.views, g.view), g.lists),
                ds, seq)
        Parsed(p) ==
            IF p.err # "none" THEN Outcome(p.err, m)
            ELSE Filtered(IterData_getitem(m.views[m.heap[seq].view], m.lists,
                                           KeyCE(p.token, <<>>)))
    IN  IF conditions = <<>> THEN Outcome("none", m)
        ELSE Parsed(parse_selection(conditions[1], m.heap, ds))

RECURSIVE apply_to_sequences(_, _, _, _)
apply_to_sequences(seqs, selection, m, ds) ==
    LET Relevant(c) == condition_matches(m.heap[seqs[1]].id, c)
        Rest(r) == IF r.err # "none" THEN r
                   ELSE apply_to_sequences(Tail(seqs), selection, r.m, ds)
    IN  IF seqs = <<>> THEN Outcome("none", m)
        ELSE Rest(apply_conditions(SelectSeq(selection, Relevant), m, ds,
                                   seqs[1]))

\* apply_selection(selection, dataset)
apply_selection(selection, m, ds) ==
    apply_to_sequences(walk(m.heap, ds, {"SequenceType"}), selection, m, ds)


\* -------------------------------------------------------- apply_projection
\* A step of a path is (name, slice_), slice_ a tuple of slices, () for none.
Step(name, slice_) == [name |-> name, slice |-> slice_]

\* the length of range(n)[sl]
SlicedLen(n, sl) == Len(islice([k \in 1..n |-> k], sl.start, sl.stop, sl.step))

\* array[slice_]: the same source, narrowed
array_getitem(arr, slice_) ==
    [arr EXCEPT
       !.shape = [d \in 1..Len(@) |->
                     IF d <= Len(slice_) THEN SlicedLen(@[d], slice_[d]) ELSE @[d]],
       !.win = Append(@, slice_)]

\* sequence[slice]: a new sequence node over the sliced view
sequence_getitem(m, seq, sl) ==
    LET Sliced(c, g) ==
            [m   |-> Machine([c.heap EXCEPT ![c.root].view = Len(m.views) + 1],
                             Append(m.views, g.view), g.lists),
             ref |-> c.root]
    IN  Sliced(clone(m.heap, seq),
               IterData_getitem(m.views[m.heap[seq].view], m.lists, KeySlice(sl)))

\* grid[slice_]: a new grid whose array and maps are sliced
grid_getitem(m, grid, slice_) ==
    LET Sliced(c) ==
            [m   |-> Machine(AsSeq([n \in 1..Len(c.heap) |->
                                       IF n > c.root
                                       THEN [c.heap[n] EXCEPT
                                               !.arr = array_getitem(@, slice_)]
                                       ELSE c.heap[n]]),
                             m.views, m.lists),
             ref |-> c.root]
    IN  Sliced(clone(m.heap, grid))

\* the candidate of a step after its slice is applied
apply_slice(m, candidate, slice_) ==
    IF slice_ = <<>> THEN [m |-> m, ref |-> candidate]
    ELSE CASE m.heap[candidate].kind = "BaseType" ->
                [m   |-> [m EXCEPT !.heap[candidate].arr =
                                       array_getitem(@, slice_)],
                 ref |-> candidate]
           [] m.heap[candidate].kind = "SequenceType" ->
                sequence_getitem(m, candidate, slice_[1])
           [] m.heap[candidate].kind = "GridType" ->
                grid_getitem(m, candidate, slice_)
           [] OTHER -> [m |-> m, ref |-> candidate]

\* A bug the degeneration could have: the new node is a grid again.
degenerate_as_grid(h, candidate) ==
    Append(h, Node("GridType", h[candidate].name, h[candidate].name,
                   <<>>, <<>>, ArrNone, 0, h[candidate].attrs))

\* StructureType(candidate.name, candidate.attributes): a new plain structure
degenerate(h, candidate) ==
    Append(h, Node("StructureType", h[candidate].name, h[candidate].name,
                   <<>>, <<>>, ArrNone, 0, h[candidate].attrs))

InKeys(node, name) == \E k \in 1..Len(node.keys) : node.keys[k] = name

\* One pass of the while loop over a path: the step popped, the candidate
\* sliced, and put in the target; target and template go down a level when
\* the candidate is a structure.
projection_step(m, target, template, step, more) ==
    LET \* target, template = target[name], template[name]
        Down(m1, h) ==
            [err |-> "none", m |-> [m1 EXCEPT !.heap = h],
             target |-> Child(h[target], step.name),
             template |-> Child(h[template], step.name)]
        \* the candidate c of the heap h, emptied when steps remain, is put
        \* in the target
        Added(m1, h, c) ==
            Down(m1, setitem(IF more THEN [h EXCEPT ![c].keys = <<>>] ELSE h,
                             target, step.name, c))
        Put(m1, c1) ==
            IF IsStructure(m1.heap[c1])
            THEN IF InKeys(m1.heap[target], step.name)
                 THEN Down(m1, m1.heap)
                 ELSE IF more /\ m1.heap[c1].kind = "GridType"
                      THEN Added(m1, degenerate(m1.heap, c1), Len(m1.heap) + 1)
                      ELSE Added(m1, m1.heap, c1)
            ELSE [err |-> "none",
                  m |-> [m1 EXCEPT !.heap = setitem(m1.heap, target, step.name, c1)],
                  target |-> target, template |-> template]
        Sliced(s) == Put(s.m, s.ref)
    IN  IF ~HasChild(m.heap[template], step.name)
        THEN [err |-> "KeyError", m |-> m, target |-> target, template |-> template]
        ELSE Sliced(apply_slice(m, Child(m.heap[template], step.name), step.slice))

RECURSIVE projection_path(_, _, _, _)
\* while var: name, slice_ = var.pop(0); ...   The path is a list object that
\* the loop takes its steps from: var is what is left of it when the loop
\* ends, and a step that raises has left the list before.
projection_path(m, target, template, path) ==
    LET Rest(r) ==
            IF r.err # "none"
            THEN [err |-> r.err, m |-> r.m, var |-> Tail(path)]
            ELSE projection_path(r.m, r.target, r.template, Tail(path))
    IN  IF path = <<>> THEN [err |-> "none", m |-> m, var |-> <<>>]
        ELSE Rest(projection_step(m, target, template, path[1], Len(path) > 1))

RECURSIVE projection_paths_on_copies(_, _, _, _)
\* A bug the loop could have: it takes the steps from a copy of each path,
\* and the lists of the projection stay as they were handed in.
projection_paths_on_copies(m, out, ds, projection) ==
    LET Later(l) ==
            [err |-> l.err, m |-> l.m,
             projection |-> <<projection[1]>> \o l.projection]
        Rest(r) ==
            IF r.err # "none"
            THEN [err |-> r.err, m |-> r.m, projection |-> projection]
            ELSE Later(projection_paths_on_copies(r.m, out, ds,
                                                  Tail(projection)))
    IN  IF projection = <<>>
        THEN [err |-> "none", m |-> m, projection |-> <<>>]
        ELSE Rest(projection_path(m, out, ds, projection[1]))

RECURSIVE projection_paths(_, _, _, _)
\* for var in projection: target, template = out, dataset; ...   The field
\* projection is the list of paths as the loop leaves it.
projection_paths(m, out, ds, projection) ==
    LET Later(r, l) ==
            [err |-> l.err, m |-> l.m,
             projection |-> <<r.var>> \o l.projection]
        Rest(r) ==
            IF r.err # "none"
            THEN [err |-> r.err, m |-> r.m,
                  projection |-> <<r.var>> \o Tail(projection)]
            ELSE Later(r, projection_paths(r.m, out, ds, Tail(projection)))
    IN  IF projection = <<>>
        THEN [err |-> "none", m |-> m, projection |-> <<>>]
        ELSE Rest(projection_path(m, out, ds, projection[1]))

\* A bug apply_projection could have: the sequences of the output keep the
\* data they came with.
fix_sequences_skipped(m, ds, seqs) == m

RECURSIVE fix_sequences(_, _, _)
\* seq.data = get_var(dataset, seq.id)[tuple(seq.keys())].data, for every
\* sequence of the output
fix_sequences(m, ds, seqs) ==
    LET Fixed(seq, g) ==
            fix_sequences(
                Machine([m.heap EXCEPT ![seq].view = Len(m.views) + 1],
                        Append(m.views, g.view), g.lists),
                ds, Tail(seqs))
        Source(seq, src) ==
            Fixed(seq, IterData_getitem(m.views[m.heap[src].view], m.lists,
                                        KeyList(m.heap[seq].keys)))
    IN  IF seqs = <<>> THEN m
        ELSE Source(seqs[1], get_var(m.heap, ds, m.heap[seqs[1]].id))

\* apply_projection(projection, dataset): the machine after the call, the
\* root of the new dataset and the projection as the call leaves it
apply_projection(projection, m, ds) ==
    LET Done(r, out) ==
            IF r.err # "none"
            THEN [err |-> r.err, m |-> r.m, out |-> 0,
                  projection |-> r.projection]
            ELSE [err |-> "none",
                  m   |-> fix_sequences(r.m, ds,
                                        walk(r.m.heap, out, {"SequenceType"})),
                  out |-> out,
                  projection |-> r.projection]
        \* out = DatasetType(name=dataset.name, attributes=dataset.attributes)
        Paths(h0) ==
            Done(projection_paths([m EXCEPT !.heap = h0], Len(h0), ds,
                                  projection),
                 Len(h0))
    IN  Paths(Append(m.heap,
                     Node("DatasetType", m.heap[ds].name, m.heap[ds].id,
                          <<>>, <<>>, ArrNone, 0, m.heap[ds].attrs)))

\* ------------------------------------------------------- BaseHandler.parse
\* pydap.lib.fix_shorthand leaves a path alone whose first name is a child of
\* the dataset; the projections of this model are all of that kind
fix_shorthand(projection, h, ds) == projection

\* A bug the default projection could have: the keys taken last first.
default_projection_reversed(h, ds) ==
    [k \in 1..Len(h[ds].keys) |->
        <<Step(h[ds].keys[Len(h[ds].keys) + 1 - k], <<>>)>>]

\* projection = [[(key, ())] for key in dataset.keys()]
default_projection(h, ds) ==
    [k \in 1..Len(h[ds].keys) |-> <<Step(h[ds].keys[k], <<>>)>>]

\* parse, from the copy on: selection, wrapping, projection
parse_copy(m, ds, projection, selection, buffer_size) ==
    LET Projected_(sel, h1) ==
            apply_projection(IF projection # <<>>
                             THEN fix_shorthand(projection, h1, ds)
                             ELSE default_projection(h1, ds),
                             [sel.m EXCEPT !.heap = h1], ds)
        Selected(sel) ==
            IF sel.err # "none" THEN [err |-> sel.err, m |-> sel.m, out |-> 0]
            ELSE Projected_(sel, wrap_arrayterator(sel.m.heap, ds, buffer_size))
    IN  Selected(apply_selection(selection, m, ds))

\* A bug parse could have: no copy made, the steps run on self.dataset.
parse_in_place(m, dataset, projection, selection, buffer_size) ==
    parse_copy(m, dataset, projection, selection, buffer_size)

\* BaseHandler.parse(projection, selection, buffer_size)
parse(m, dataset, projection, selection, buffer_size) ==
    LET Cloned(c) ==
            parse_copy([m EXCEPT !.heap = c.heap], c.root, projection,
                       selection, buffer_size)
    IN  Cloned(clone(m.heap, dataset))


\* ------------------------------------------------------ the handler's calls
\* buffer size in bytes, for streaming data
BUFFER_SIZE == 134217728

NameZ == Str("z")

\* the paths a projection of this model is made of
PathInputs ==
    { <<Step(NameX, <<Slice(0, 2, 1)>>)>>,
      <<Step(NameT, <<>>)>>,
      <<Step(NameT, <<>>), Step(NameP, <<>>)>>,
      <<Step(NameG, <<>>)>>,
      <<Step(NameG, <<>>), Step(NameR, <<>>)>>,
      <<Step(NameG, <<Slice(0, 2, 1)>>), Step(NameM, <<>>)>>,
      <<Step(SeqId, <<>>), Step(VarA, <<>>)>>,
      <<Step(SeqId, <<Slice(1, 3, 1)>>)>>,
      <<Step(NameZ, <<>>)>> }

RECURSIVE ListsUpTo(_, _)
\* the lists of at most n elements of S
ListsUpTo(S, n) ==
    IF n = 0 THEN {<<>>}
    ELSE LET shorter == ListsUpTo(S, n - 1)
         IN  shorter \cup {Append(q, x) : q \in shorter, x \in S}

ProjectionInputs == ListsUpTo(PathInputs, MaxPaths)

Clause(id, op, n) == id \o op \o encode(n)

SelectionInputs ==
    { <<>>,
      <<Clause(Path2(SeqId, VarB), OpGt, 10)>>,
      <<Clause(Path2(SeqId, VarA), OpLe, 1), Clause(Path2(SeqId, VarB), OpGt, 10)>>,
      <<Clause(NameX, OpGt, 1)>>,
      <<Clause(Path2(SeqId, NameZ), OpGt, 1)>>,
      <<Path2(SeqId, VarA) \o OpGt \o NameZ>> }

BufferInputs == {3, 8, BUFFER_SIZE}

SpecStream ==
    << <<0, 5, 1>>, <<1, 15, 0>>, <<2, 8, 1>>, <<3, 20, 0>>, <<4, 3, 1>> >>

TemplateView == IterData_init(SeqId, SeqVars, 1, <<SliceNone>>)

\* The handler's position: idle, a request received, or a request parsed.
Call(op, projection, selection, buffer_size, err, out) ==
    [op |-> op, projection |-> projection, selection |-> selection,
     buffer_size |-> buffer_size, err |-> err, out |-> out]

NoCall == Call("idle", <<>>, <<>>, 0, "none", 0)

Init ==
    /\ stream = SpecStream
    /\ heap = TemplateHeap
    /\ views = <<TemplateView>>
    /\ lists = << <<>> >>
    /\ hist = <<>>
    /\ ret = Ret("init", 1, NoResult)
    /\ tokens = {}
    /\ call = NoCall

\* The head of BaseHandler.__call__: the projection and the selection parsed
\* from the query string, the buffer size read from the environment.
Receive ==
    /\ call.op = "idle"
    /\ \E projection \in ProjectionInputs : \E selection \in SelectionInputs :
          \E buffer_size \in BufferInputs :
              call' = Call("received", projection, selection, buffer_size,
                           "none", 0)
    /\ UNCHANGED <<stream, views, lists, hist, ret, heap, tokens>>

\* dataset = self.parse(projection, selection, buffer_size), a whole call
Parse ==
    LET Parsed(r) ==
            /\ heap' = r.m.heap
            /\ views' = r.m.views
            /\ lists' = r.m.lists
            /\ call' = [call EXCEPT !.op = "parsed", !.err = r.err,
                                    !.out = r.out]
    IN  /\ call.op = "received"
        /\ Parsed(parse(Machine(heap, views, lists), TemplateRoot,
                        call.projection, call.selection, call.buffer_size))
        /\ UNCHANGED <<stream, hist, ret, tokens>>

\* The end of BaseHandler.__call__: the response is sent (or the error
\* raised) and the objects made for the request are dropped; the handler
\* keeps self.dataset.
Return ==
    /\ call.op = "parsed"
    /\ heap' = SubSeq(heap, 1, Len(TemplateHeap))
    /\ views' = SubSeq(views, 1, 1)
    /\ lists' = SubSeq(lists, 1, 1)
    /\ call' = NoCall
    /\ UNCHANGED <<stream, hist, ret, tokens>>

Next ==
    \/ Receive
    \/ Parse
    \/ Return

Spec == Init /\ [][Next]_vars


\* ------------------------------------------------- claims about the handler
\* C1: whatever calls of BaseHandler.parse were made (any projection,
\* selection and buffer size, calls that returned and calls that raised), the
\* template tree self.dataset is as it was built: the same nodes with the same
\* child names and order and the same data references, and its sequence has
\* the same pending selection and slice.
C1_TemplateNeverMutated ==
    /\ Len(heap) >= Len(TemplateHeap)
    /\ SubSeq(heap, 1, Len(TemplateHeap)) = TemplateHeap
    /\ views[1] = TemplateView
    /\ lists[TemplateView.selection] = <<>>

\* the copy of template node n made by the call in progress
CloneOf(n) == Len(TemplateHeap) + n

\* A call has returned whose selection and projection wrote the copy: the
\* copy of x is sliced and wrapped, the copy of s is filtered and has lost a
\* key.
C1_Witness ==
    /\ call.op = "parsed"
    /\ call.err = "none"
    /\ call.selection # <<>>
    /\ heap[CloneOf(2)].arr # heap[2].arr
    /\ heap[CloneOf(9)].keys # heap[9].keys
    /\ heap[CloneOf(9)].view # heap[9].view
    /\ lists[views[heap[CloneOf(9)].view].selection] # <<>>

RECURSIVE Shape(_, _)
\* the name, kind and shape of a node and of its children, in child order
Shape(h, r) ==
    [name     |-> h[r].name,
     kind     |-> h[r].kind,
     shape    |-> h[r].arr.shape,
     children |-> [k \in 1..Len(h[r].keys) |->
                      Shape(h, Child(h[r], h[r].keys[k]))]]

\* C6: parse with an empty projection and an empty selection returns a tree
\* with the names, the child order at every level, the kinds and the shapes of
\* the full dataset.
C6_EmptyProjectionGivesFullTree ==
    (call.op = "parsed" /\ call.projection = <<>> /\ call.selection = <<>>)
        => /\ call.err = "none"
           /\ Shape(heap, call.out) = Shape(TemplateHeap, TemplateRoot)

C6_Witness ==
    /\ call.op = "parsed"
    /\ call.projection = <<>>
    /\ call.selection = <<>>
    /\ call.buffer_size = 3
    /\ call.out > 2 * Len(TemplateHeap)
    /\ Len(heap[call.out].keys) = 4

\* the path goes through a grid of the dataset: its first step names a grid
\* and steps remain after it
ThroughGrid(path) ==
    /\ Len(path) > 1
    /\ HasChild(heap[TemplateRoot], path[1].name)
    /\ heap[Child(heap[TemplateRoot], path[1].name)].kind = "GridType"

\* the first path of the projection whose first step is `name`
FirstNaming(projection, name) ==
    projection[CHOOSE i \in 1..Len(projection) :
                  /\ projection[i][1].name = name
                  /\ \A j \in 1..(i - 1) : projection[j][1].name # name]

\* the names the paths of the projection reach through `name`
NamedThrough(projection, name) ==
    {projection[i][2].name : i \in {j \in 1..Len(projection) :
        Len(projection[j]) > 1 /\ projection[j][1].name = name}}

\* the output node at `name` is a plain structure with the grid's name and
\* attributes and exactly the children the paths name, each a plain array
Degenerated(name) ==
    LET g == heap[Child(heap[TemplateRoot], name)]
    IN  /\ HasChild(heap[call.out], name)
        /\ LET n == heap[Child(heap[call.out], name)]
           IN  /\ n.kind = "StructureType"
               /\ n.name = g.name
               /\ n.attrs = g.attrs
               /\ {n.keys[k] : k \in 1..Len(n.keys)}
                     = NamedThrough(call.projection, name)
               /\ Len(n.keys) = Cardinality(NamedThrough(call.projection, name))
               /\ \A k \in 1..Len(n.keys) :
                     /\ HasChild(n, n.keys[k])
                     /\ heap[Child(n, n.keys[k])].kind = "BaseType"

\* C7 as stated: whenever a path of the projection has steps remaining after
\* a step that names a grid, the output node at the grid's name is a plain
\* structure (no grid) with the grid's name and attributes and exactly the
\* children named by the paths through it, each a plain array.
C7_Original_GridAlwaysDegenerated ==
    (call.op = "parsed" /\ call.err = "none")
        => \A i \in 1..Len(call.projection) :
              ThroughGrid(call.projection[i])
                  => Degenerated(call.projection[i][1].name)

\* C7, amended: the same, when the first path of the projection that names the
\* grid has steps remaining after it, so that the grid's name is not in the
\* output yet when a path goes through it.
C7_GridDegeneratedWhenNew ==
    (call.op = "parsed" /\ call.err = "none")
        => \A i \in 1..Len(call.projection) :
              (/\ ThroughGrid(call.projection[i])
               /\ Len(FirstNaming(call.projection,
                                  call.projection[i][1].name)) > 1)
                  => Degenerated(call.projection[i][1].name)

\* two paths through the grid g, to r and to m, the second with a slice
C7_Witness ==
    /\ call.op = "parsed"
    /\ call.err = "none"
    /\ Len(call.projection) = 2
    /\ ThroughGrid(call.projection[1])
    /\ ThroughGrid(call.projection[2])
    /\ heap[Child(heap[call.out], NameG)].kind = "StructureType"
    /\ heap[Child(heap[call.out], NameG)].keys = <<NameR, NameM>>


Max(x, y) == IF x >= y THEN x ELSE y

RECURSIVE Arrayterator_iter(_, _, _)
\* Iteration of the Arrayterator around a one-dimensional array of n
\* elements, from element `start` on: chunks of count elements, where
\* count = self.buf_size or the size of the array, so that a buf_size of 0
\* gives the whole array at once.  An element is named by its place.
Arrayterator_iter(start, n, buf_size) ==
    LET count == IF buf_size = 0 THEN n ELSE buf_size
        stop  == Min(n, start + count)
    IN  IF start >= n THEN <<>>
        ELSE <<[k \in 1..(stop - start) |-> start + k]>>
             \o Arrayterator_iter(stop, n, buf_size)

\* the wrapped leaves of the copy the call worked on
WrappedLeaves ==
    {n \in (Len(TemplateHeap) + 1)..(2 * Len(TemplateHeap)) :
        heap[n].kind = "BaseType" /\ heap[n].arr.wrapped}

\* C8 as stated: for every byte budget B and every leaf with item size S > 0
\* and shape (N,), wrap_arrayterator gives the leaf a chunk size of
\* max(1, B div S) elements, never below 1, and the leaf is iterated in
\* ceil(N / max(1, B div S)) chunks whose concatenation is the N elements in
\* order.
C8_Original_ChunkSizeAtLeastOne ==
    (call.op = "parsed" /\ call.err = "none")
        => \A n \in WrappedLeaves :
              LET e      == Max(1, call.buffer_size \div heap[n].arr.itemsize)
                  N      == heap[n].arr.shape[1]
                  chunks == Arrayterator_iter(0, N, heap[n].arr.buf)
              IN  /\ heap[n].arr.buf = e
                  /\ heap[n].arr.buf >= 1
                  /\ Len(chunks) = (N + e - 1) \div e
                  /\ Concat(chunks) = [k \in 1..N |-> k]


\* an operand of a clause that is no variable of the dataset and no literal
Unresolved(id) ==
    get_var(TemplateHeap, TemplateRoot, id) = 0 /\ ~literal_ok(id)

\* a clause that apply_selection takes for the sequence s and that has an
\* operand it cannot resolve
UnresolvedClause(condition) ==
    /\ condition_matches(SeqId, condition)
    /\ re_split(condition).op \in SelectionOps
    /\ \/ Unresolved(re_split(condition).id1)
       \/ Unresolved(re_split(condition).id2)

\* C11 as stated: apply_selection on a clause that matches a sequence of the
\* dataset and has an operand that is neither a variable of the dataset nor a
\* parseable literal fails with ConstraintExpressionError, and with no other
\* kind of error.
C11_Original_UnresolvedOperandRaisesCEError ==
    (/\ call.op = "parsed"
     /\ call.selection # <<>>
     /\ UnresolvedClause(call.selection[1]))
        => call.err = "ConstraintExpressionError"

\* the clause holds of a source row: left operand a column of s, right
\* operand a column or a literal
ClauseHolds(condition, row) ==
    LET Holds(t, name1, name2) ==
            ApplyOp(t.op, row[IndexOf(name1, SeqVars)],
                    IF InTuple(name2, SeqVars) THEN row[IndexOf(name2, SeqVars)]
                    ELSE literal_eval(t.id2))
        Split(t) == Holds(t, Last(str_split(t.id1, Dot)),
                          Last(str_split(t.id2, Dot)))
    IN  Split(re_split(condition))

\* the source rows that pass every clause of the selection that is about s,
\* each cut down to the columns names, in that order
SelectedRows(selection, names) ==
    LET Passes(row) ==
            \A k \in 1..Len(selection) :
                condition_matches(SeqId, selection[k])
                    => ClauseHolds(selection[k], row)
        Cut(rows) ==
            [k \in 1..Len(rows) |->
                [j \in 1..Len(names) |-> rows[k][IndexOf(names[j], SeqVars)]]]
    IN  Cut(SelectSeq(stream, Passes))

\* the sequences of the dataset the call returned
OutputSequences ==
    {n \in 1..Len(heap) :
        \E i \in 1..Len(walk(heap, call.out, {"SequenceType"})) :
            walk(heap, call.out, {"SequenceType"})[i] = n}

\* C12: after a call that returned, every Sequence of the output tree iterates
\* over exactly the columns that are its children in the output, in the
\* output's child order, and over exactly the source rows that pass the
\* selection, in source order: selection s.b>10 and projection s.a over the
\* rows (0,5) (1,15) (2,8) (3,20) (4,3) give the a values 1 and 3.
C12_SequenceColumnsAndRowsFollowOutput ==
    (call.op = "parsed" /\ call.err = "none")
        => \A n \in OutputSequences :
              /\ views[heap[n].view].cols = ColsTuple(heap[n].keys)
              /\ IterData_iter(views[heap[n].view], lists, stream).err = "none"
              /\ IterData_iter(views[heap[n].view], lists, stream).rows
                     = SelectedRows(call.selection, heap[n].keys)

\* the scenario of the claim: the column a of the rows whose b is above 10
C12_Witness ==
    /\ call.op = "parsed"
    /\ call.err = "none"
    /\ call.selection = <<Clause(Path2(SeqId, VarB), OpGt, 10)>>
    /\ call.projection = << <<Step(SeqId, <<>>), Step(VarA, <<>>)>> >>
    /\ OutputSequences # {}
    /\ \A n \in OutputSequences :
          /\ heap[n].keys = <<VarA>>
          /\ IterData_iter(views[heap[n].view], lists, stream).rows
                 = << <<1>>, <<3>> >>

PathNames(path) == [k \in 1..Len(path) |-> path[k].name]

\* the node of the handler's dataset a path ends at, 0 when there is none
SourceOf(path) == Descend(TemplateHeap, TemplateRoot, PathNames(path))

\* C13 as stated: a path whose final step names a Structure, Grid or Sequence
\* puts that node in the output with every child it has in the source tree,
\* whatever paths come before it in the projection list: also after an
\* earlier path went through the same node to one of its children.
C13_Original_FinalStepKeepsAllChildren ==
    (call.op = "parsed" /\ call.err = "none")
        => \A k \in 1..Len(call.projection) :
              (/\ SourceOf(call.projection[k]) # 0
               /\ IsStructure(TemplateHeap[SourceOf(call.projection[k])]))
                  => /\ Descend(heap, call.out,
                                PathNames(call.projection[k])) # 0
                     /\ heap[Descend(heap, call.out,
                                     PathNames(call.projection[k]))].keys
                            = TemplateHeap[SourceOf(call.projection[k])].keys


\* ----------------------------------------------- the tokens of a selection
\* The comparisons made on the view x, and the tokens kept by the caller.
CmpInputs ==
    {Cmp(<<>>, OpGt, 2), Cmp(<<>>, OpLt, 8), Cmp(<<>>, OpGe, 2), Cmp(<<>>, OpEq, 8)}

\* the longest token kept, in characters, and the number of tokens kept
MaxTokenLen == 7
MaxTokens == 3

TokenCall(op, left, right, err, out) ==
    [op |-> op, left |-> left, right |-> right, err |-> err, out |-> out]

InitCE ==
    /\ stream = SpecStream
    /\ heap = <<>>
    /\ views = << IterData_init(NameX, SeqVars, 1, <<SliceNone>>) >>
    /\ lists = << <<>> >>
    /\ hist = <<>>
    /\ ret = Ret("init", 1, NoResult)
    /\ tokens = {}
    /\ call = TokenCall("init", <<>>, <<>>, "none", <<>>)

\* x > 2, x < 8, x >= 2: IterData.__gt__ and the others
Compare ==
    LET Made(t) == /\ tokens' = tokens \cup {t}
                   /\ call' = TokenCall("cmp", <<>>, <<>>, "none", t)
    IN  /\ Cardinality(tokens) < MaxTokens
        /\ \E c \in CmpInputs : Made(IterData_cmp(views[1], c.op, c.n))
        /\ UNCHANGED <<stream, views, lists, hist, ret, heap>>

\* left & right
And ==
    LET Made(left, right, t) ==
            /\ Len(t) <= MaxTokenLen
            /\ tokens' = tokens \cup {t}
            /\ call' = TokenCall("and", left, right, "none", t)
    IN  /\ Cardinality(tokens) < MaxTokens
        /\ \E left \in tokens : \E right \in tokens :
              Made(left, right, ConstraintExpression_and(left, right))
        /\ UNCHANGED <<stream, views, lists, hist, ret, heap>>

\* left | right: raises, no token is made
Or ==
    /\ \E left \in tokens : \E right \in tokens :
          call' = TokenCall("or", left, right,
                            ConstraintExpression_or(left, right), <<>>)
    /\ UNCHANGED <<stream, views, lists, hist, ret, heap, tokens>>

NextCE ==
    \/ Compare
    \/ And
    \/ Or

SpecCE == InitCE /\ [][NextCE]_vars

\* C9: left & right is the token whose text is the left text, '&', the right
\* text (x>2 and x<8 give "x>2&x<8"); left | right always raises
\* ConstraintExpressionError and gives no token.
C9_AndJoinsOrRaises ==
    /\ call.op = "and"
          => /\ call.err = "none"
             /\ call.out = call.left \o <<"&">> \o call.right
             /\ (call.left = <<"x", ">", "2">> /\ call.right = <<"x", "<", "8">>)
                   => call.out = <<"x", ">", "2", "&", "x", "<", "8">>
    /\ call.op = "or"
          => /\ call.err = "ConstraintExpressionError"
             /\ call.out = <<>>

\* x>2 and x<8 were joined
C9_Witness ==
    /\ call.op = "and"
    /\ call.left = <<"x", ">", "2">>
    /\ call.right = <<"x", "<", "8">>
    /\ call.out \in tokens


\* ------------------------------------------- a selection, then the rows read
\* the clauses a selection of this specification is made of: two comparisons
\* with a literal, one of two columns, and one of a name the dataset has not
SelClauses ==
    { Clause(Path2(SeqId, VarB), OpGt, 10),
      Clause(Path2(SeqId, VarA), OpGe, 1),
      Path2(SeqId, VarA) \o OpLt \o Path2(SeqId, VarC),
      Clause(Path2(SeqId, NameZ), OpGt, 1) }

\* the longest selection list
MaxClauses == 3

SelectionLists == ListsUpTo(SelClauses, MaxClauses)

\* apply_selection(selection, dataset) on a copy of the handler's dataset,
\* then list(dataset['s'].data): the error raised on the way, or the rows
select_rows(m, dataset, selection, strm) ==
    LET Rows(sel, seq) ==
            [m   |-> sel.m,
             res |-> IterData_iter(sel.m.views[sel.m.heap[seq].view],
                                   sel.m.lists, strm)]
        Selected(sel, root) ==
            IF sel.err # "none"
            THEN [m |-> sel.m, res |-> Result(sel.err, FALSE, <<>>, <<>>)]
            ELSE Rows(sel, get_var(sel.m.heap, root, SeqId))
        Cloned(c) ==
            Selected(apply_selection(selection, [m EXCEPT !.heap = c.heap],
                                     c.root),
                     c.root)
    IN  Cloned(clone(m.heap, dataset))

SelCall(op, selection, res) == [op |-> op, selection |-> selection, res |-> res]

InitSel ==
    /\ stream \in Streams
    /\ heap = TemplateHeap
    /\ views = <<TemplateView>>
    /\ lists = << <<>> >>
    /\ hist = <<>>
    /\ ret = Ret("init", 1, NoResult)
    /\ tokens = {}
    /\ call = SelCall("idle", <<>>, NoResult)

\* a selection is handed in
ReceiveSel ==
    /\ call.op = "idle"
    /\ \E selection \in SelectionLists :
          call' = SelCall("received", selection, NoResult)
    /\ UNCHANGED <<stream, views, lists, hist, ret, heap, tokens>>

\* the selection is applied to a copy and the rows of the sequence are read
Select ==
    LET Selected(r) ==
            /\ heap' = r.m.heap
            /\ views' = r.m.views
            /\ lists' = r.m.lists
            /\ call' = [call EXCEPT !.op = "selected", !.res = r.res]
    IN  /\ call.op = "received"
        /\ Selected(select_rows(Machine(heap, views, lists), TemplateRoot,
                                call.selection, stream))
        /\ UNCHANGED <<stream, hist, ret, tokens>>

\* the copy is dropped
ReturnSel ==
    /\ call.op = "selected"
    /\ heap' = SubSeq(heap, 1, Len(TemplateHeap))
    /\ views' = SubSeq(views, 1, 1)
    /\ lists' = SubSeq(lists, 1, 1)
    /\ call' = SelCall("idle", <<>>, NoResult)
    /\ UNCHANGED <<stream, hist, ret, tokens>>

NextSel ==
    \/ ReceiveSel
    \/ Select
    \/ ReturnSel

SpecSel == InitSel /\ [][NextSel]_vars

ClauseSet(selection) == {selection[k] : k \in 1..Len(selection)}

\* the result of the same call made with the selection q instead
RowsFor(q) ==
    select_rows(Machine(TemplateHeap, <<TemplateView>>, << <<>> >>),
                TemplateRoot, q, stream).res

\* C2: apply_selection followed by iteration yields the same rows in the same
\* order for every selection list with the same clauses: every permutation of
\* the list, and every list that names a clause of it more than once.
C2_SelectionOrderAndRepeatsDoNotMatter ==
    call.op = "selected"
        => \A q \in SelectionLists :
              ClauseSet(q) = ClauseSet(call.selection)
                  => /\ (RowsFor(q).err = "none") = (call.res.err = "none")
                     /\ RowsFor(q).rows = call.res.rows

\* a selection of two clauses, one of them listed twice, that keeps some rows
\* and drops others
C2_Witness ==
    /\ call.op = "selected"
    /\ Len(call.selection) = 3
    /\ Cardinality(ClauseSet(call.selection)) = 2
    /\ call.res.err = "none"
    /\ call.res.rows # <<>>
    /\ Len(call.res.rows) < Len(stream)
    /\ Len(lists[views[Len(views)].selection]) = 3


\* ------------------------------------------- apply_projection, called twice
\* A caller that holds a projection and a copy of the dataset and hands both
\* to apply_projection, and then once more.  given is a ghost: the projection
\* as it was before the first call.
ProjCall(op, given, projection, ds, err, out, err2, out2) ==
    [op |-> op, given |-> given, projection |-> projection, ds |-> ds,
     err |-> err, out |-> out, err2 |-> err2, out2 |-> out2]

NoProjCall == ProjCall("idle", <<>>, <<>>, 0, "none", 0, "none", 0)

InitProj ==
    /\ stream = SpecStream
    /\ heap = TemplateHeap
    /\ views = <<TemplateView>>
    /\ lists = << <<>> >>
    /\ hist = <<>>
    /\ ret = Ret("init", 1, NoResult)
    /\ tokens = {}
    /\ call = NoProjCall

\* dataset = self.dataset.clone(), and a projection from the parser
ReceiveProj ==
    LET Cloned(c) ==
            /\ heap' = c.heap
            /\ \E projection \in ProjectionInputs :
                  call' = ProjCall("received", projection, projection, c.root,
                                   "none", 0, "none", 0)
    IN  /\ call.op = "idle"
        /\ Cloned(clone(heap, TemplateRoot))
        /\ UNCHANGED <<stream, views, lists, hist, ret, tokens>>

\* apply_projection(projection, dataset), a whole call
Project ==
    LET Projected_(r) ==
            /\ heap' = r.m.heap
            /\ views' = r.m.views
            /\ lists' = r.m.lists
            /\ call' = [call EXCEPT !.op = "projected", !.err = r.err,
                                    !.out = r.out,
                                    !.projection = r.projection]
    IN  /\ call.op = "received"
        /\ Projected_(apply_projection(call.projection,
                                       Machine(heap, views, lists), call.ds))
        /\ UNCHANGED <<stream, hist, ret, tokens>>

\* apply_projection again, with the same projection object and dataset
ProjectAgain ==
    LET Projected_(r) ==
            /\ heap' = r.m.heap
            /\ views' = r.m.views
            /\ lists' = r.m.lists
            /\ call' = [call EXCEPT !.op = "again", !.err2 = r.err,
                                    !.out2 = r.out,
                                    !.projection = r.projection]
    IN  /\ call.op = "projected"
        /\ Projected_(apply_projection(call.projection,
                                       Machine(heap, views, lists), call.ds))
        /\ UNCHANGED <<stream, hist, ret, tokens>>

\* the caller drops the copy and what was made of it
ReturnProj ==
    /\ call.op \in {"projected", "again"}
    /\ heap' = SubSeq(heap, 1, Len(TemplateHeap))
    /\ views' = SubSeq(views, 1, 1)
    /\ lists' = SubSeq(lists, 1, 1)
    /\ call' = NoProjCall
    /\ UNCHANGED <<stream, hist, ret, tokens>>

NextProj ==
    \/ ReceiveProj
    \/ Project
    \/ ProjectAgain
    \/ ReturnProj

SpecProj == InitProj /\ [][NextProj]_vars

\* C14: apply_projection consumes the projection it is given.  When a call
\* has returned normally every path list of the projection is empty, and a
\* second call with the same projection object returns normally too, adds no
\* variable and gives a dataset with no children.
C14_ProjectionConsumed ==
    /\ (call.op \in {"projected", "again"} /\ call.err = "none")
          => /\ Len(call.projection) = Len(call.given)
             /\ \A k \in 1..Len(call.projection) : call.projection[k] = <<>>
    /\ (call.op = "again" /\ call.err = "none")
          => /\ call.err2 = "none"
             /\ call.out2 # call.out
             /\ heap[call.out2].kind = "DatasetType"
             /\ heap[call.out2].keys = <<>>
             /\ heap[call.out2].dict = <<>>

\* a projection of two paths, one of two steps, whose first call gave a
\* dataset with children and whose second call gave an empty one
C14_Witness ==
    /\ call.op = "again"
    /\ call.err = "none"
    /\ Len(call.given) = 2
    /\ Len(call.given[1]) = 2
    /\ Len(heap[call.out].keys) = 2
    /\ heap[call.out2].keys = <<>>

====
